---- MODULE Spec2Model ----
(***************************************************************************)
(* The inputs pipeline of engine-rs (src/src/inputs/mod.rs): the Control   *)
(* registry, register / read, and the per-frame reduction process_events.  *)
(***************************************************************************)
EXTENDS Integers, Sequences, FiniteSets, TLC

(* ------------------------------ bounds --------------------------------- *)
\* most events the event pump holds between two frames
MaxPending == 2
\* most Controls in one Vec of Controls (a register call, an Input's controls)
MaxControls == 2

(* --------------------------- program constants ------------------------- *)
\* i16::MAX, the divisor of a ControllerAxisMotion value
I16_MAX == 32767

(* ------------------------------ data model ----------------------------- *)
\* sdl2 Scancode, controller Button and controller Axis values used here
Scancode == {"A", "D"}
GamepadButton == {"PadA"}
GamepadAxis == {"LeftX"}
\* the payload of an absent Option / an unused field
None == "None"
\* T: InputScheme, the identifiers of logical inputs
InputId == {"idA", "idB"}

\* enum ButtonControl { Keyboard(Scancode), Gamepad(GamepadButton) }
BKeyboard(s) == [device |-> "Keyboard", code |-> s, code2 |-> None]
BGamepad(g) == [device |-> "Gamepad", code |-> g, code2 |-> None]
ButtonControl == {BKeyboard(s) : s \in Scancode} \cup {BGamepad(g) : g \in GamepadButton}

\* enum AxisControl { Keyboard(Scancode, Scancode), Gamepad(GamepadAxis) }
AKeyboard(min, max) == [device |-> "Keyboard", code |-> min, code2 |-> max]
AGamepad(x) == [device |-> "Gamepad", code |-> x, code2 |-> None]
AxisControl ==
    {AKeyboard(p[1], p[2]) : p \in {q \in Scancode \X Scancode : q[1] # q[2]}}
    \cup {AGamepad(x) : x \in GamepadAxis}

\* enum Control { Button(ButtonControl), Axis(AxisControl) }
ControlButton(bc) == [device |-> bc.device, code |-> bc.code, code2 |-> bc.code2, variant |-> "Button"]
ControlAxis(ac) == [device |-> ac.device, code |-> ac.code, code2 |-> ac.code2, variant |-> "Axis"]
Control == {ControlButton(bc) : bc \in ButtonControl} \cup {ControlAxis(ac) : ac \in AxisControl}

\* enum ButtonState { Down, Up }
ButtonState == {"Down", "Up"}

\* duplicate-free Vecs of at most MaxControls elements of S
RECURSIVE VecsOfLen(_, _)
VecsOfLen(S, n) ==
    IF n = 0 THEN {<< >>}
    ELSE {Append(v, c) : v \in VecsOfLen(S, n - 1), c \in S}
Range(v) == {v[i] : i \in 1..Len(v)}
Vecs(S) ==
    {v \in UNION {VecsOfLen(S, n) : n \in 1..MaxControls} : Cardinality(Range(v)) = Len(v)}

\* enum Input { Button(ButtonInputData), Axis(AxisInputData) }, and the absent
\* entry of a HashMap<T, Input> (Option::None)
InputButton(v, ch, cs) ==
    [variant |-> "Button", value |-> v, changed_this_frame |-> ch, axis_value |-> 0, controls |-> cs]
InputAxis(x, cs) ==
    [variant |-> "Axis", value |-> None, changed_this_frame |-> FALSE, axis_value |-> x, controls |-> cs]
NoInput ==
    [variant |-> None, value |-> None, changed_this_frame |-> FALSE, axis_value |-> 0, controls |-> << >>]

\* sdl2 Event values the pump yields; scancode is an Option
KeyDown(s) == [code |-> s, value |-> 0, type |-> "KeyDown"]
KeyUp(s) == [code |-> s, value |-> 0, type |-> "KeyUp"]
ControllerButtonDown(g) == [code |-> g, value |-> 0, type |-> "ControllerButtonDown"]
ControllerButtonUp(g) == [code |-> g, value |-> 0, type |-> "ControllerButtonUp"]
ControllerAxisMotion(x, v) == [code |-> x, value |-> v, type |-> "ControllerAxisMotion"]
NoEvent == [code |-> None, value |-> 0, type |-> None]
Event ==
    {KeyDown(s) : s \in Scancode \cup {None}} \cup {KeyUp(s) : s \in Scancode}
    \cup {ControllerButtonDown(g) : g \in GamepadButton}
    \cup {ControllerButtonUp(g) : g \in GamepadButton}
    \cup {ControllerAxisMotion(x, I16_MAX) : x \in GamepadAxis}

VARIABLES
    controls_input, \* HashMap<Control, T>: [Control -> InputId \cup {None}]
    inputs,         \* HashMap<T, Input>:   [InputId -> Input or NoInput]
    event_pump,     \* the events pending in the EventPump, oldest first
    last,           \* the most recent step at the pipeline's boundary
    registered,     \* history: the identifiers for which register has returned Ok
    held            \* history: the scancodes whose latest drained key event is a KeyDown

vars == <<controls_input, inputs, event_pump, last, registered, held>>

(* ------------------------------ new ------------------------------------ *)
new_controls_input == [c \in Control |-> None]
new_inputs == [i \in InputId |-> NoInput]

(* ------------------------------ register ------------------------------- *)
\* the first Control of controls, from index k on, that controls_input holds
RECURSIVE FirstBusy(_, _, _)
FirstBusy(ci, controls, k) ==
    IF k > Len(controls) THEN None
    ELSE IF ci[controls[k]] # None THEN ci[controls[k]]
    ELSE FirstBusy(ci, controls, k + 1)

\* controls_input with the first n Controls of controls given to input_id
RECURSIVE Reserve(_, _, _, _)
Reserve(ci, controls, input_id, n) ==
    IF n = 0 THEN ci
    ELSE [Reserve(ci, controls, input_id, n - 1) EXCEPT ![controls[n]] = input_id]

\* the index of the first Control of controls that controls_input holds, or 0
RECURSIVE FirstBusyAt(_, _, _)
FirstBusyAt(ci, controls, k) ==
    IF k > Len(controls) THEN 0
    ELSE IF ci[controls[k]] # None THEN k
    ELSE FirstBusyAt(ci, controls, k + 1)

\* register that reserves each Control as it validates it (commit-as-you-go)
register_commit_as_you_go(ci, ins, input_id, input, controls) ==
    LET at == FirstBusyAt(ci, controls, 1) IN
    IF at # 0
    THEN [controls_input |-> Reserve(ci, controls, input_id, at - 1), inputs |-> ins,
          result |-> "ControlBusy", owner |-> ci[controls[at]]]
    ELSE [controls_input |-> Reserve(ci, controls, input_id, Len(controls)),
          inputs |-> [ins EXCEPT ![input_id] = input],
          result |-> "Ok", owner |-> None]

\* register that stores the Input and its Controls without looking for an owner
register_unchecked(ci, ins, input_id, input, controls) ==
    [controls_input |-> Reserve(ci, controls, input_id, Len(controls)),
     inputs |-> [ins EXCEPT ![input_id] = input],
     result |-> "Ok", owner |-> None]

\* the Result of register, and the maps it leaves behind
register(ci, ins, input_id, input, controls) ==
    LET busy == FirstBusy(ci, controls, 1) IN
    IF busy # None
    THEN [controls_input |-> ci, inputs |-> ins, result |-> "ControlBusy", owner |-> busy]
    ELSE [controls_input |-> ci, inputs |-> ins, result |-> "Ok", owner |-> None]

(* ------------------------------ read ----------------------------------- *)
read(ins, key) == ins[key]

(* ---------------------------- process_events --------------------------- *)
\* a poll that hands over the oldest pending event only (poll_event)
poll_iter_one(pump) == IF Len(pump) > 0 THEN 1 ELSE 0

\* event_pump.poll_iter(): the number of pending events the iterator yields before
\* it ends, which is all of them
poll_iter(pump) == Len(pump)

\* the filter_map of the partition: the Control an event is keyed by, or None
NoControl == [device |-> None, code |-> None, code2 |-> None, variant |-> None]
EventControl(e) ==
    IF e.type \in {"KeyDown", "KeyUp"} /\ e.code # None
    THEN ControlButton(BKeyboard(e.code))
    ELSE NoControl

\* a collect() that keeps the first event of a Control and drops the later ones
RECURSIVE Partition_first_wins(_, _, _)
Partition_first_wins(events, k, map) ==
    IF k > Len(events) THEN map
    ELSE LET e == events[k]
             c == EventControl(e)
         IN Partition_first_wins(events, k + 1,
                IF c = NoControl \/ map[c] # NoEvent THEN map ELSE [map EXCEPT ![c] = e])

\* a collect() that gives up at the first key event without a scancode and keeps
\* only what it has gathered before it
RECURSIVE Partition_stop_at_malformed(_, _, _)
Partition_stop_at_malformed(events, k, map) ==
    IF k > Len(events) THEN map
    ELSE LET e == events[k]
             c == EventControl(e)
         IN IF e.type \in {"KeyDown", "KeyUp"} /\ e.code = None THEN map
            ELSE Partition_stop_at_malformed(events, k + 1,
                    IF c = NoControl THEN map ELSE [map EXCEPT ![c] = e])

\* collect() into a HashMap<Control, Event>: a later event replaces an earlier one
RECURSIVE Partition(_, _, _)
Partition(events, k, map) ==
    IF k > Len(events) THEN map
    ELSE LET e == events[k]
             c == EventControl(e)
         IN Partition(events, k + 1, IF c = NoControl THEN map ELSE [map EXCEPT ![c] = e])

EmptyPartition == [c \in Control |-> NoEvent]

\* one pass of the loop over a.controls
AxisStep(a, control, events) ==
    IF control.device = "Gamepad"
    THEN LET event == events[ControlAxis(control)] IN
         IF event # NoEvent
         THEN [a EXCEPT !.axis_value =
                  IF event.type = "ControllerAxisMotion" THEN event.value ELSE 0]
         ELSE a
    ELSE LET emin == events[ControlButton(BKeyboard(control.code))]
             emax == events[ControlButton(BKeyboard(control.code2))]
             v1 == IF emin # NoEvent /\ emin.type = "KeyDown" THEN 0 - I16_MAX ELSE 0
             v2 == IF emax # NoEvent /\ emax.type = "KeyDown" THEN v1 + I16_MAX ELSE v1
         IN [a EXCEPT !.axis_value = v2]

\* a pass that takes the event of any button Control of the same device, without
\* comparing the scancode or the gamepad button
ButtonStep_any_code(b, control, events) ==
    LET hits == {c \in Control : c.variant = "Button" /\ c.device = control.device
                                  /\ events[c] # NoEvent}
        event == IF hits = {} THEN NoEvent ELSE events[CHOOSE c \in hits : TRUE]
        down == IF control.device = "Gamepad" THEN "ControllerButtonDown" ELSE "KeyDown"
        up == IF control.device = "Gamepad" THEN "ControllerButtonUp" ELSE "KeyUp"
    IN IF event = NoEvent THEN b
       ELSE IF event.type = down
       THEN [b EXCEPT !.changed_this_frame = (b.value # "Down"), !.value = "Down"]
       ELSE IF event.type = up
       THEN [b EXCEPT !.changed_this_frame = (b.value # "Up"), !.value = "Up"]
       ELSE [b EXCEPT !.changed_this_frame = FALSE, !.value = "Up"]

\* one pass of the loop over b.controls
ButtonStep(b, control, events) ==
    LET event == events[ControlButton(control)]
        down == IF control.device = "Gamepad" THEN "ControllerButtonDown" ELSE "KeyDown"
        up == IF control.device = "Gamepad" THEN "ControllerButtonUp" ELSE "KeyUp"
    IN IF event = NoEvent THEN b
       ELSE IF event.type = down
       THEN [b EXCEPT !.changed_this_frame = (b.value # "Down"), !.value = "Down"]
       ELSE IF event.type = up
       THEN [b EXCEPT !.changed_this_frame = (b.value # "Up"), !.value = "Up"]
       ELSE [b EXCEPT !.changed_this_frame = FALSE, !.value = "Up"]

RECURSIVE ReduceInput(_, _, _)
ReduceInput(i, k, events) ==
    IF k > Len(i.controls) THEN i
    ELSE IF i.variant = "Axis"
    THEN ReduceInput(AxisStep(i, i.controls[k], events), k + 1, events)
    ELSE IF i.variant = "Button"
    THEN ReduceInput(ButtonStep(i, i.controls[k], events), k + 1, events)
    ELSE i

\* a frame that also forgets every button it has just released
process_events_drop_released(ins, pending) ==
    LET events == Partition(pending, 1, EmptyPartition) IN
    [i \in InputId |->
        LET r == ReduceInput(ins[i], 1, events) IN
        IF r.variant = "Button" /\ r.value = "Up" /\ r.changed_this_frame THEN NoInput ELSE r]

\* self.inputs after process_events has drained `pending`
process_events(ins, pending) ==
    LET events == Partition(pending, 1, EmptyPartition) IN
    [i \in InputId |-> ReduceInput(ins[i], 1, events)]

(* ------------------------------ actions -------------------------------- *)
Step(op, id, result, owner, controls, batch) ==
    [controls |-> controls, result |-> result, owner |-> owner, op |-> op, id |-> id, batch |-> batch]

Init ==
    /\ controls_input = new_controls_input
    /\ inputs = new_inputs
    /\ event_pump = << >>
    /\ last = Step("new", None, None, None, << >>, << >>)
    /\ registered = {}
    /\ held = {}

\* the Controls of an Input, as the Vec<Control> a caller passes with it
Wrap(input) ==
    [k \in 1..Len(input.controls) |->
        IF input.variant = "Button" THEN ControlButton(input.controls[k])
        ELSE ControlAxis(input.controls[k])]

\* the Inputs a caller builds: at rest (Up, unchanged / 0.0)
NewInput ==
    {InputButton("Up", FALSE, cs) : cs \in Vecs(ButtonControl)}
    \cup {InputAxis(0, cs) : cs \in Vecs(AxisControl)}

Register(input_id, input, controls) ==
    LET r == register(controls_input, inputs, input_id, input, controls) IN
    /\ controls_input' = r.controls_input
    /\ inputs' = r.inputs
    /\ last' = Step("register", input_id, r.result, r.owner, controls, << >>)
    /\ registered' = IF r.result = "Ok" THEN registered \cup {input_id} ELSE registered
    /\ UNCHANGED <<event_pump, held>>

Read(key) ==
    /\ last' = Step("read", key, read(inputs, key).variant, None, << >>, << >>)
    /\ UNCHANGED <<controls_input, inputs, event_pump, registered, held>>

\* the device layer queues an event
PushEvent(e) ==
    /\ Len(event_pump) < MaxPending
    /\ event_pump' = Append(event_pump, e)
    /\ last' = Step("push_event", None, None, None, << >>, << >>)
    /\ UNCHANGED <<controls_input, inputs, registered, held>>

\* the keys down once `pending` has been drained, oldest event first
RECURSIVE KeysHeld(_, _, _)
KeysHeld(h, pending, k) ==
    IF k > Len(pending) THEN h
    ELSE LET e == pending[k] IN
         KeysHeld(IF e.type = "KeyDown" /\ e.code # None THEN h \cup {e.code}
                  ELSE IF e.type = "KeyUp" /\ e.code # None THEN h \ {e.code}
                  ELSE h,
                  pending, k + 1)

ProcessEvents ==
    LET n == poll_iter(event_pump)
        batch == SubSeq(event_pump, 1, n)
    IN /\ inputs' = process_events(inputs, batch)
       /\ event_pump' = SubSeq(event_pump, n + 1, Len(event_pump))
       /\ last' = Step("process_events", None, None, None, << >>, batch)
       /\ held' = KeysHeld(held, batch, 1)
       /\ UNCHANGED <<controls_input, registered>>

Next ==
    \/ \E id \in InputId, input \in NewInput : Register(id, input, Wrap(input))
    \/ \E key \in InputId : Read(key)
    \/ \E e \in Event : PushEvent(e)
    \/ ProcessEvents

\* the pipeline from its construction on
Spec == Init /\ [][Next]_vars

(* ------------------- pipelines that hold registrations ------------------ *)
\* the Controls of the stored Input of id
Bound(ins, id) == Range(Wrap(ins[id]))

\* pipelines as registrations that took effect leave them: every stored Input is
\* at rest and owns its Controls in controls_input, and no Control has two owners
Pipeline ==
    {p \in [InputId -> NewInput \cup {NoInput}] :
        /\ \A i, j \in InputId : i # j => Bound(p, i) \cap Bound(p, j) = {}
        /\ Cardinality(UNION {Bound(p, i) : i \in InputId}) <= MaxControls}
Owners(p) ==
    [c \in Control |-> IF \E i \in InputId : c \in Bound(p, i)
                       THEN CHOOSE i \in InputId : c \in Bound(p, i)
                       ELSE None]

InitOps ==
    /\ inputs \in Pipeline
    /\ controls_input = Owners(inputs)
    /\ event_pump = << >>
    /\ last = Step("new", None, None, None, << >>, << >>)
    /\ registered = {i \in InputId : inputs[i] # NoInput}
    /\ held = {}

\* the calls of the public interface against every such pipeline, the devices silent
NextRegistry ==
    \/ \E id \in InputId, input \in NewInput : Register(id, input, Wrap(input))
    \/ \E key \in InputId : Read(key)
    \/ ProcessEvents

SpecRegistry == InitOps /\ [][NextRegistry]_vars

\* the frame loop against every such pipeline
NextFrames ==
    \/ \E e \in Event : PushEvent(e)
    \/ ProcessEvents

SpecFrames == InitOps /\ [][NextFrames]_vars

(* ------------------------------ properties ------------------------------ *)
\* the identifiers that own or bind c: through controls_input, or through the
\* controls of a stored Input
BoundTo(c) ==
    {i \in InputId : controls_input[c] = i \/ c \in Bound(inputs, i)}

C2_RegisterCommits ==
    (last.op = "register" /\ last.result = "Ok" /\ Len(last.controls) > 0)
    => /\ \A k \in 1..Len(last.controls) : controls_input[last.controls[k]] = last.id
       /\ read(inputs, last.id) # NoInput

C4_ReadNoneIffUnregistered ==
    \A id \in InputId : (read(inputs, id) = NoInput) <=> (id \notin registered)

\* C10 Re-registration is rejected: a register call for an identifier that register
\* has accepted before does not return Ok, and leaves controls_input and inputs as
\* they were.
C10_ReRegistrationRejected ==
    [][(last'.op = "register" /\ last'.id \in registered)
       => /\ last'.result # "Ok"
          /\ controls_input' = controls_input
          /\ inputs' = inputs]_vars

(* ------------------------- properties of a frame ------------------------ *)
IsKeyEvent(e) == e.type \in {"KeyDown", "KeyUp"} /\ e.code # None
IsKeyOf(e, K) == IsKeyEvent(e) /\ e.code = K

\* event e is for one of the Controls of the Input i: a key of one of its keyboard
\* buttons or keyboard pairs, one of its gamepad buttons, one of its gamepad axes
Concerns(e, i) ==
    \/ /\ IsKeyEvent(e)
       /\ \/ i.variant = "Button" /\ BKeyboard(e.code) \in Range(i.controls)
          \/ /\ i.variant = "Axis"
             /\ \E c \in Range(i.controls) : c.device = "Keyboard" /\ e.code \in {c.code, c.code2}
    \/ /\ e.type \in {"ControllerButtonDown", "ControllerButtonUp"}
       /\ i.variant = "Button" /\ BGamepad(e.code) \in Range(i.controls)
    \/ /\ e.type = "ControllerAxisMotion"
       /\ i.variant = "Axis" /\ AGamepad(e.code) \in Range(i.controls)

\* the state a registered Input starts in: Up and unchanged, or 0.0
AtRest(i) ==
    IF i.variant = "Button" THEN i.value = "Up" /\ ~i.changed_this_frame
    ELSE i.axis_value = 0

\* a button bound to the scancode K alone; an axis bound to the pair (neg, pos) alone
ButtonOn(i, K) == i.variant = "Button" /\ i.controls = <<BKeyboard(K)>>
AxisOn(i, neg, pos) == i.variant = "Axis" /\ i.controls = <<AKeyboard(neg, pos)>>

\* the frame that has just run drained exactly `batch`
JustProcessed(batch) == last.op = "process_events" /\ last.batch = batch

\* the step taken is a frame: process_events has just run (no other operation
\* leaves this mark in `last`)
FrameStep == last'.op = "process_events"

LastKeyEvent(pending, K) ==
    pending[CHOOSE k \in 1..Len(pending) :
                /\ IsKeyOf(pending[k], K)
                /\ \A j \in (k + 1)..Len(pending) : ~IsKeyOf(pending[j], K)]

TargetControl(e) ==
    IF IsKeyEvent(e) THEN ControlButton(BKeyboard(e.code))
    ELSE IF e.type \in {"ControllerButtonDown", "ControllerButtonUp"} THEN ControlButton(BGamepad(e.code))
    ELSE IF e.type = "ControllerAxisMotion" THEN ControlAxis(AGamepad(e.code))
    ELSE NoControl
Unbound(c) == c # NoControl /\ BoundTo(c) = {}

\* a key event for the negative or positive scancode of a bound keyboard pair
IsAxisKey(e) ==
    /\ IsKeyEvent(e)
    /\ \E id \in InputId : inputs[id].variant = "Axis" /\ Concerns(e, inputs[id])

Without(seq, p) == SubSeq(seq, 1, p - 1) \o SubSeq(seq, p + 1, Len(seq))

HasEventFor(pending, c) == \E k \in 1..Len(pending) : TargetControl(pending[k]) = c
LastEventFor(pending, c) ==
    pending[CHOOSE k \in 1..Len(pending) :
                /\ TargetControl(pending[k]) = c
                /\ \A j \in (k + 1)..Len(pending) : TargetControl(pending[j]) # c]
IsPress(e) == e.type \in {"KeyDown", "ControllerButtonDown"}

\* the positions, in the binding order of the button b, of the Controls that have
\* an event in `pending`
Matching(b, pending) ==
    {k \in 1..Len(b.controls) : HasEventFor(pending, ControlButton(b.controls[k]))}
Max(S) == CHOOSE m \in S : \A n \in S : n <= m

PadButtonOn(i, g) == i.variant = "Button" /\ i.controls = <<BGamepad(g)>>
PadAxisOn(i, x) == i.variant = "Axis" /\ i.controls = <<AGamepad(x)>>

Malformed(e) == e.type \in {"KeyDown", "KeyUp"} /\ e.code = None

Stored(ins) == {i \in InputId : read(ins, i) # NoInput}

C19_ExhaustiveDrain ==
    /\ (last.op = "process_events" => event_pump = << >>)
    /\ [][FrameStep =>
            /\ last'.batch = event_pump
            /\ event_pump' = << >>
            /\ last.op = "process_events" => last'.batch = << >>]_vars

C19_Witness ==
    /\ last.op = "process_events"
    /\ Len(last.batch) = MaxPending
    /\ event_pump = << >>

(* --------------------- properties of keys across kinds ------------------ *)
\* the keyboard scancodes a Control listens to
Keys(c) == IF c.device = "Keyboard" THEN {c.code, c.code2} \ {None} ELSE {}

\* two Vecs of Controls of which one holds a button and the other an axis that
\* listen to a common keyboard scancode
ShareKeyAcrossKinds(cs, ds) ==
    \E c \in Range(cs), d \in Range(ds) :
        c.variant # d.variant /\ Keys(c) \cap Keys(d) # {}

\* C20 No ambiguous physical key across input kinds: of two register calls in a
\* row for different identifiers, one with a button and one with an axis that
\* listen to a common keyboard scancode (a button on D, an axis on the pair
\* (A, D)), the second does not return Ok when the first did.
C20_NoAmbiguousKey ==
    [][(/\ last.op = "register" /\ last.result = "Ok"
        /\ last'.op = "register" /\ last'.id # last.id
        /\ ShareKeyAcrossKinds(last.controls, last'.controls))
       => last'.result # "Ok"]_vars
====
